---- MODULE Spec2Model ----
(***************************************************************************)
(* Model of crates/assistant_slash_command/src/assistant_slash_command.rs: *)
(* SlashCommandOutput::to_event_stream and                                 *)
(* SlashCommandOutput::from_event_stream.                                  *)
(*                                                                         *)
(* A String is a sequence of bytes holding valid UTF-8; ranges are byte    *)
(* offsets.  Option<T> is a sequence of length 0 (None) or 1 (Some).       *)
(***************************************************************************)
EXTENDS Integers, Sequences, FiniteSets, TLC

\* Longest text of an input SlashCommandOutput, in bytes.
MaxLen == 3
\* Most sections of an input SlashCommandOutput.
MaxSections == 2
\* Most items of an event stream produced by a command.
MaxEvents == 4
\* Longest text and most sections of an input SlashCommandOutput whose
\* ranges are unconstrained.
MaxAnyLen == 2
MaxAnySections == 2
\* Most ArgumentCompletions a command builds.
MaxCompletions == 6

None == <<>>
Some(x) == <<x>>

-----------------------------------------------------------------------------
(* Values *)

\* One-byte 'a' and two-byte U+00E9 (0xC3 0xA9).
Chars == {<<97>>, <<195, 169>>}

RECURSIVE Strings(_)
Strings(n) ==
    IF n = 0 THEN {<<>>}
    ELSE UNION {{c \o s : s \in Strings(n - Len(c))} : c \in {d \in Chars : Len(d) <= n}}

Metadata == {None, Some("a"), Some("b")}
Errors == {"e1", "e2"}

\* SlashCommandOutputSection<usize>
Section(start, end, icon, label, metadata) ==
    [range |-> [start |-> start, end |-> end],
     icon |-> icon, label |-> label, metadata |-> metadata]

\* SlashCommandEvent, and the Err item of Result<SlashCommandEvent>
StartSectionEvent(icon, label, metadata) ==
    [kind |-> "StartSection", icon |-> icon, label |-> label, metadata |-> metadata]
ContentEvent(text, run_commands_in_text) ==
    [kind |-> "Content", text |-> text, run_commands_in_text |-> run_commands_in_text]
EndSectionEvent(metadata) ==
    [kind |-> "EndSection", metadata |-> metadata]
ErrItem(e) ==
    [kind |-> "Err", error |-> e]

\* SlashCommandOutput
Output(text, sections, run_commands_in_text) ==
    [text |-> text, sections |-> sections, run_commands_in_text |-> run_commands_in_text]

\* SlashCommandOutput::default()
DefaultOutput == Output(<<>>, <<>>, FALSE)

\* Result<SlashCommandOutput>
Ok(o) == [tag |-> "Ok", output |-> Some(o), error |-> None]
Err(e) == [tag |-> "Err", output |-> None, error |-> Some(e)]
Pending == [tag |-> "Pending", output |-> None, error |-> None]

-----------------------------------------------------------------------------
(* AfterCompletion *)

AfterCompletions == {"Run", "Compose", "Continue"}

\* a conversion that maps false to Compose
AfterCompletionFromCompose(value) == IF value THEN "Run" ELSE "Compose"

\* impl From<bool> for AfterCompletion
AfterCompletionFrom(value) == IF value THEN "Run" ELSE "Continue"

\* AfterCompletion::run
AfterCompletionRun(after_completion) ==
    CASE after_completion = "Run" -> TRUE
      [] after_completion \in {"Compose", "Continue"} -> FALSE

-----------------------------------------------------------------------------
(* str slicing *)

\* str::is_char_boundary(index), index a byte offset
IsCharBoundary(text, index) ==
    \/ index = 0
    \/ index = Len(text)
    \/ /\ index < Len(text)
       /\ ~(text[index + 1] \in 128..191)

\* text.get(start..end).unwrap_or_default().to_string()
GetOrDefault(text, start, end) ==
    IF start <= end /\ IsCharBoundary(text, start) /\ IsCharBoundary(text, end)
    THEN SubSeq(text, start + 1, end)
    ELSE <<>>

\* text[start..] panics unless start is a char boundary of text
CanIndexFrom(text, start) == IsCharBoundary(text, start)

IndexFrom(text, start) == SubSeq(text, start + 1, Len(text))

-----------------------------------------------------------------------------
(* to_event_stream *)

\* GapEvents with `<=` for `<`: a Content event for an empty gap too
GapEventsAlways(o, last_section_end, section) ==
    IF last_section_end <= section.range.start
    THEN <<ContentEvent(GetOrDefault(o.text, last_section_end, section.range.start),
                        o.run_commands_in_text)>>
    ELSE <<>>

\* the Content event for the text before a section
GapEvents(o, last_section_end, section) ==
    IF last_section_end < section.range.start
    THEN <<ContentEvent(GetOrDefault(o.text, last_section_end, section.range.start),
                        o.run_commands_in_text)>>
    ELSE <<>>

\* SectionEvents that skips the Content event of an empty section
SectionEventsElideEmpty(o, section) ==
    <<StartSectionEvent(section.icon, section.label, section.metadata)>>
    \o (IF section.range.start < section.range.end
        THEN <<ContentEvent(GetOrDefault(o.text, section.range.start, section.range.end),
                            o.run_commands_in_text)>>
        ELSE <<>>)
    \o <<EndSectionEvent(section.metadata)>>

\* SectionEvents that never closes the section
SectionEventsNoEnd(o, section) ==
    <<StartSectionEvent(section.icon, section.label, section.metadata),
      ContentEvent(GetOrDefault(o.text, section.range.start, section.range.end),
                   o.run_commands_in_text)>>

\* StartSection, Content, EndSection of one section
SectionEvents(o, section) ==
    <<StartSectionEvent(section.icon, section.label, section.metadata),
      ContentEvent(GetOrDefault(o.text, section.range.start, section.range.end),
                   o.run_commands_in_text),
      EndSectionEvent(section.metadata)>>

\* the Content event for the text after the last section
TrailingEvents(o, last_section_end) ==
    IF last_section_end < Len(o.text)
    THEN <<ContentEvent(IndexFrom(o.text, last_section_end), o.run_commands_in_text)>>
    ELSE <<>>

\* the slice of the trailing text panics
TrailingPanics(o, last_section_end) ==
    /\ last_section_end < Len(o.text)
    /\ ~CanIndexFrom(o.text, last_section_end)

RECURSIVE ToEventsLoop(_, _, _, _)
ToEventsLoop(o, i, last_section_end, events) ==
    IF i > Len(o.sections)
    THEN IF TrailingPanics(o, last_section_end)
         THEN [panicked |-> TRUE, events |-> <<>>]
         ELSE [panicked |-> FALSE, events |-> events \o TrailingEvents(o, last_section_end)]
    ELSE LET section == o.sections[i]
         IN  ToEventsLoop(o, i + 1, section.range.end,
                          events \o GapEvents(o, last_section_end, section)
                                 \o SectionEvents(o, section))

to_event_stream(o) == ToEventsLoop(o, 1, 0, <<>>)

-----------------------------------------------------------------------------
(* from_event_stream: the loop state is [output, current_section] *)

LoopState(output, current_section) ==
    [output |-> output, current_section |-> current_section]

InitialLoopState == LoopState(DefaultOutput, None)

\* current_section.take() followed by push, when a section is open
PushCurrent(st) ==
    IF st.current_section /= None
    THEN [st.output EXCEPT !.sections = Append(@, st.current_section[1])]
    ELSE st.output

\* OnStartSection that opens the new section at offset 0
OnStartSectionAtZero(st, ev) ==
    LoopState(PushCurrent(st), Some(Section(0, 0, ev.icon, ev.label, ev.metadata)))

\* OnStartSection that overwrites an open section instead of pushing it
OnStartSectionDropsOpen(st, ev) ==
    LET start == Len(st.output.text)
    IN  LoopState(st.output, Some(Section(start, start, ev.icon, ev.label, ev.metadata)))

OnStartSection(st, ev) ==
    LET out == PushCurrent(st)
        start == Len(out.text)
    IN  LoopState(out, Some(Section(start, start, ev.icon, ev.label, ev.metadata)))

\* OnContent that, with no section open, extends the last pushed section
OnContentExtendsLast(st, ev) ==
    LET out == [st.output EXCEPT !.text = @ \o ev.text,
                                 !.run_commands_in_text = ev.run_commands_in_text]
        n == Len(out.sections)
    IN  IF st.current_section /= None
        THEN LoopState(out, Some([st.current_section[1] EXCEPT !.range.end = Len(out.text)]))
        ELSE IF n > 0
        THEN LoopState([out EXCEPT !.sections[n].range.end = Len(out.text)], None)
        ELSE LoopState(out, None)

\* OnContent that keeps only the text that arrives inside a section
OnContentDropsFreeText(st, ev) ==
    LET out == [st.output EXCEPT !.text = @ \o ev.text,
                                 !.run_commands_in_text = ev.run_commands_in_text]
    IN  IF st.current_section /= None
        THEN LoopState(out, Some([st.current_section[1] EXCEPT !.range.end = Len(out.text)]))
        ELSE LoopState([st.output EXCEPT !.run_commands_in_text = ev.run_commands_in_text],
                       None)

\* OnContent that only ever raises run_commands_in_text
OnContentStickyFlag(st, ev) ==
    LET out == [st.output EXCEPT !.text = @ \o ev.text,
                                 !.run_commands_in_text = @ \/ ev.run_commands_in_text]
    IN  LoopState(out,
                  IF st.current_section /= None
                  THEN Some([st.current_section[1] EXCEPT !.range.end = Len(out.text)])
                  ELSE None)

OnContent(st, ev) ==
    LET out == [st.output EXCEPT !.text = @ \o ev.text,
                                 !.run_commands_in_text = ev.run_commands_in_text]
    IN  LoopState(out,
                  IF st.current_section /= None
                  THEN Some([st.current_section[1] EXCEPT !.range.end = Len(out.text)])
                  ELSE None)

\* OnEndSection that keeps the metadata of the StartSection
OnEndSectionKeepsStart(st, ev) ==
    IF st.current_section /= None
    THEN LoopState([st.output EXCEPT !.sections = Append(@, st.current_section[1])], None)
    ELSE st

\* OnEndSection that, with no section open, pushes an empty section
OnEndSectionStrayPushes(st, ev) ==
    LET at == Len(st.output.text)
        section == IF st.current_section /= None
                   THEN st.current_section[1]
                   ELSE Section(at, at, "Code", "", None)
    IN  LoopState([st.output EXCEPT !.sections =
                       Append(@, [section EXCEPT !.metadata = ev.metadata])],
                  None)

OnEndSection(st, ev) ==
    IF st.current_section /= None
    THEN LoopState([st.output EXCEPT !.sections =
                        Append(@, [st.current_section[1] EXCEPT !.metadata = ev.metadata])],
                   None)
    ELSE st

\* OnStreamEnd that forgets the open section
OnStreamEndDropsOpen(st) == Ok(st.output)

\* after the loop
OnStreamEnd(st) == Ok(PushCurrent(st))

\* OnError that swallows the error and returns what was accumulated
OnErrorReturnsPartial(st, item) == Ok(PushCurrent(st))

\* `event?` on an Err item
OnError(st, item) == Err(item.error)

\* the whole conversion of a finite stream
RECURSIVE FromEventsLoop(_, _, _)
FromEventsLoop(items, i, st) ==
    IF i > Len(items) THEN OnStreamEnd(st)
    ELSE LET item == items[i]
         IN  CASE item.kind = "Err" -> OnError(st, item)
               [] item.kind = "StartSection" ->
                      FromEventsLoop(items, i + 1, OnStartSection(st, item))
               [] item.kind = "Content" ->
                      FromEventsLoop(items, i + 1, OnContent(st, item))
               [] item.kind = "EndSection" ->
                      FromEventsLoop(items, i + 1, OnEndSection(st, item))

from_event_stream(items) == FromEventsLoop(items, 1, InitialLoopState)

-----------------------------------------------------------------------------
(* Inputs *)

SectionTagSeq ==
    <<[icon |-> "Code", label |-> "Section 1", metadata |-> None],
      [icon |-> "File", label |-> "Section 2", metadata |-> Some("a")],
      [icon |-> "Code", label |-> "Section 2", metadata |-> Some("b")]>>

SectionTags == {SectionTagSeq[i] : i \in 1..Len(SectionTagSeq)}

\* The ranges of k sections over a text of n bytes, as the 2k offsets
\* start_1, end_1, ..., start_k, end_k: sorted by start, end of one <= start
\* of the next, 0 <= start <= end <= n.
RangeLists(n, k) ==
    {p \in [1..(2 * k) -> 0..n] : \A i \in 1..(2 * k - 1) : p[i] <= p[i + 1]}

MakeSections(p, tags) ==
    [i \in 1..Len(tags) |->
        Section(p[2 * i - 1], p[2 * i], tags[i].icon, tags[i].label, tags[i].metadata)]

\* The ranges of k sections over a text of n bytes with no constraint: any
\* order, start > end and offsets one past the end of the text included.
AnyRangeLists(n, k) == [1..(2 * k) -> 0..(n + 1)]

\* icon, label and metadata of the i-th section of such an Output
TagAt(i) == SectionTagSeq[((i - 1) % Len(SectionTagSeq)) + 1]

ContentTexts == {<<>>, <<97>>, <<195, 169>>}

Items ==
    {StartSectionEvent(t.icon, t.label, t.metadata) : t \in SectionTags}
    \cup {ContentEvent(t, f) : t \in ContentTexts, f \in BOOLEAN}
    \cup {EndSectionEvent(m) : m \in Metadata}
    \cup {ErrItem(e) : e \in Errors}

Streams == UNION {[1..n -> Items] : n \in 0..MaxEvents}

-----------------------------------------------------------------------------
(* State *)

VARIABLES
    source,          \* Some(o): the SlashCommandOutput given to to_event_stream; None: the stream comes from a command
    events,          \* the event stream given to from_event_stream
    consumed,        \* number of items pulled from the stream
    output,          \* from_event_stream: `output`
    current_section, \* from_event_stream: `current_section`
    result,          \* what from_event_stream returned
    pc,              \* "to_event_stream", "from_event_stream", "done", "panicked", "completing"
    completions      \* the ArgumentCompletions built so far: the bool given and its AfterCompletion

vars == <<source, events, consumed, output, current_section, result, pc, completions>>

Init ==
    /\ \/ /\ \E n \in 0..MaxLen, k \in 0..MaxSections :
                \E text \in Strings(n), p \in RangeLists(n, k),
                   tags \in [1..k -> SectionTags], flag \in BOOLEAN :
                    source = Some(Output(text, MakeSections(p, tags), flag))
          /\ events = <<>>
          /\ pc = "to_event_stream"
       \/ /\ source = None
          /\ events \in Streams
          /\ pc = "from_event_stream"
    /\ consumed = 0
    /\ output = DefaultOutput
    /\ current_section = None
    /\ result = Pending
    /\ completions = <<>>

\* Init, or an Output whose section ranges are unconstrained
InitAny ==
    \/ Init
    \/ /\ \E n \in 0..MaxAnyLen, k \in 0..MaxAnySections :
             \E text \in Strings(n), p \in AnyRangeLists(n, k), flag \in BOOLEAN :
                 source = Some(Output(text, MakeSections(p, [i \in 1..k |-> TagAt(i)]), flag))
       /\ events = <<>>
       /\ pc = "to_event_stream"
       /\ consumed = 0
       /\ output = DefaultOutput
       /\ current_section = None
       /\ result = Pending
       /\ completions = <<>>

\* output.to_event_stream(), handed to from_event_stream
ToEventStream ==
    /\ pc = "to_event_stream"
    /\ LET r == to_event_stream(source[1])
       IN  /\ pc' = IF r.panicked THEN "panicked" ELSE "from_event_stream"
           /\ events' = r.events
    /\ UNCHANGED <<source, consumed, output, current_section, result, completions>>

HasNext == pc = "from_event_stream" /\ consumed < Len(events)
NextItem == events[consumed + 1]

Apply(st) ==
    /\ output' = st.output
    /\ current_section' = st.current_section
    /\ consumed' = consumed + 1
    /\ UNCHANGED <<source, events, result, pc, completions>>

StartSection ==
    /\ HasNext
    /\ NextItem.kind = "StartSection"
    /\ Apply(OnStartSection(LoopState(output, current_section), NextItem))

Content ==
    /\ HasNext
    /\ NextItem.kind = "Content"
    /\ Apply(OnContent(LoopState(output, current_section), NextItem))

EndSection ==
    /\ HasNext
    /\ NextItem.kind = "EndSection"
    /\ Apply(OnEndSection(LoopState(output, current_section), NextItem))

\* StreamError that skips the Err item and goes on pulling
StreamErrorSkips ==
    /\ HasNext
    /\ NextItem.kind = "Err"
    /\ consumed' = consumed + 1
    /\ UNCHANGED <<source, events, output, current_section, result, pc, completions>>

StreamError ==
    /\ HasNext
    /\ NextItem.kind = "Err"
    /\ result' = OnError(LoopState(output, current_section), NextItem)
    /\ consumed' = consumed + 1
    /\ pc' = "done"
    /\ UNCHANGED <<source, events, output, current_section, completions>>

StreamEnd ==
    /\ pc = "from_event_stream"
    /\ consumed = Len(events)
    /\ result' = OnStreamEnd(LoopState(output, current_section))
    /\ pc' = "done"
    /\ UNCHANGED <<source, events, consumed, output, current_section, completions>>

Next ==
    \/ ToEventStream
    \/ StartSection
    \/ Content
    \/ EndSection
    \/ StreamError
    \/ StreamEnd

Spec == Init /\ [][Next]_vars

SpecAny == InitAny /\ [][Next]_vars

\* a command building its ArgumentCompletions, no conversion of events running
InitCompletion ==
    /\ pc = "completing"
    /\ completions = <<>>
    /\ source = None
    /\ events = <<>>
    /\ consumed = 0
    /\ output = DefaultOutput
    /\ current_section = None
    /\ result = Pending

\* after_completion: value.into(), with its run()
FromBool ==
    /\ pc = "completing"
    /\ Len(completions) < MaxCompletions
    /\ \E value \in BOOLEAN :
           LET after_completion == AfterCompletionFrom(value)
           IN  completions' = Append(completions,
                   [value |-> value,
                    after_completion |-> after_completion,
                    run |-> AfterCompletionRun(after_completion)])
    /\ UNCHANGED <<source, events, consumed, output, current_section, result, pc>>

NextCompletion == FromBool

SpecCompletion == InitCompletion /\ [][NextCompletion]_vars

-----------------------------------------------------------------------------
(* Vocabulary of the properties *)

FromOutput == source /= None
Converted == pc \in {"from_event_stream", "done"}
Done == pc = "done"

\* every section boundary of o is a UTF-8 character boundary of o.text
CharAligned(o) ==
    \A i \in 1..Len(o.sections) :
        /\ IsCharBoundary(o.text, o.sections[i].range.start)
        /\ IsCharBoundary(o.text, o.sections[i].range.end)

ErrorFree(seq) == \A i \in 1..Len(seq) : seq[i].kind /= "Err"

IsMarker(item) == item.kind \in {"StartSection", "EndSection"}

\* a section is open when item i of seq arrives: the last StartSection or
\* EndSection before i is a StartSection
OpenBefore(seq, i) ==
    \E j \in 1..(i - 1) :
        /\ seq[j].kind = "StartSection"
        /\ \A k \in (j + 1)..(i - 1) : ~IsMarker(seq[k])

\* position of the StartSection that opened the section open before item i
OpenerBefore(seq, i) ==
    CHOOSE j \in 1..(i - 1) :
        /\ seq[j].kind = "StartSection"
        /\ \A k \in (j + 1)..(i - 1) : ~IsMarker(seq[k])

StartsBefore(seq, i) ==
    Cardinality({j \in 1..(i - 1) : seq[j].kind = "StartSection"})

\* bytes of Content text in items 1..i-1 of seq
RECURSIVE TextLenBefore(_, _)
TextLenBefore(seq, i) ==
    IF i <= 1 THEN 0
    ELSE TextLenBefore(seq, i - 1)
         + (IF seq[i - 1].kind = "Content" THEN Len(seq[i - 1].text) ELSE 0)

\* text[a..b] as a plain slice of bytes
Slice(text, a, b) == SubSeq(text, a + 1, b)

\* the closed sections followed by the open one
AllSections ==
    output.sections \o (IF current_section /= None THEN <<current_section[1]>> ELSE <<>>)

ResultOutput == result.output[1]

-----------------------------------------------------------------------------
(* C1: round trip *)

\* C1: for every Output whose sections are sorted by start, non-overlapping
\* and within the text bounds, for any text, any number of sections and either
\* value of run_commands_in_text, from_event_stream(to_event_stream(o))
\* returns Ok of an Output equal to o in text, sections and flag (stated of
\* the conversions that ran to completion).
C1_RoundTrip ==
    (FromOutput /\ Done) => result = Ok(source[1])

-----------------------------------------------------------------------------
(* C2: the sequence to_event_stream emits *)

PrevEnd(o, i) == IF i = 1 THEN 0 ELSE o.sections[i - 1].range.end

\* the events the claim lists for section i
ExpectedBlock(o, i) ==
    LET section == o.sections[i]
    IN  (IF PrevEnd(o, i) < section.range.start
         THEN <<ContentEvent(Slice(o.text, PrevEnd(o, i), section.range.start),
                             o.run_commands_in_text)>>
         ELSE <<>>)
        \o <<StartSectionEvent(section.icon, section.label, section.metadata),
             ContentEvent(Slice(o.text, section.range.start, section.range.end),
                          o.run_commands_in_text),
             EndSectionEvent(section.metadata)>>

\* the events the claim lists after the last section
ExpectedTail(o) ==
    LET lastEnd == PrevEnd(o, Len(o.sections) + 1)
    IN  IF lastEnd < Len(o.text)
        THEN <<ContentEvent(Slice(o.text, lastEnd, Len(o.text)), o.run_commands_in_text)>>
        ELSE <<>>

RECURSIVE ExpectedBlocks(_, _)
ExpectedBlocks(o, k) ==
    IF k = 0 THEN <<>> ELSE ExpectedBlocks(o, k - 1) \o ExpectedBlock(o, k)

ExpectedEvents(o) == ExpectedBlocks(o, Len(o.sections)) \o ExpectedTail(o)

\* C2 as stated: for a well-formed Output to_event_stream emits exactly the
\* gap Content (only for a non-empty gap), StartSection, Content, EndSection
\* of each section in order and the trailing Content (only if non-empty), each
\* Content carrying the Output's flag.
C2_EmittedAsStated ==
    (FromOutput /\ pc /= "to_event_stream")
        => (pc /= "panicked" /\ events = ExpectedEvents(source[1]))

\* C2, amended: the same, for Outputs whose section boundaries all lie on
\* UTF-8 character boundaries of the text.
C2_Emitted ==
    (FromOutput /\ CharAligned(source[1]) /\ pc /= "to_event_stream")
        => (pc /= "panicked" /\ events = ExpectedEvents(source[1]))

\* a stream emitted for two sections, the first preceded by a gap and the
\* second adjacent to the first (no gap event), with trailing text
C2_Witness ==
    /\ FromOutput /\ pc = "from_event_stream" /\ consumed = 0
    /\ CharAligned(source[1])
    /\ Len(source[1].sections) = 2
    /\ source[1].sections[1].range.start > 0
    /\ source[1].sections[1].range.start < source[1].sections[1].range.end
    /\ source[1].sections[1].range.end = source[1].sections[2].range.start
    /\ source[1].sections[2].range.end < Len(source[1].text)
    /\ Len(events) = 8

-----------------------------------------------------------------------------
(* C3: gap preservation *)

InSomeSection(o, p) ==
    \E i \in 1..Len(o.sections) :
        o.sections[i].range.start <= p /\ p < o.sections[i].range.end

\* byte offsets of o.text that no section of o covers
GapPositions(o) == {p \in 0..(Len(o.text) - 1) : ~InSomeSection(o, p)}

\* the bytes of o.text at the offsets below n that are (inGap) outside every
\* section / (~inGap) inside some section, in text order
RECURSIVE TextWhere(_, _, _)
TextWhere(o, inGap, n) ==
    IF n = 0 THEN <<>>
    ELSE TextWhere(o, inGap, n - 1)
         \o (IF InSomeSection(o, n - 1) /= inGap THEN <<o.text[n]>> ELSE <<>>)

GapText(o) == TextWhere(o, TRUE, Len(o.text))
SectionText(o) == TextWhere(o, FALSE, Len(o.text))

\* the text of the Content events among items 1..n of seq that arrive while a
\* section is (open) / is not (~open) open, in stream order
RECURSIVE ContentTextWhere(_, _, _)
ContentTextWhere(seq, open, n) ==
    IF n = 0 THEN <<>>
    ELSE ContentTextWhere(seq, open, n - 1)
         \o (IF seq[n].kind = "Content" /\ OpenBefore(seq, n) = open
             THEN seq[n].text ELSE <<>>)

GapPreserved(o) ==
    /\ pc /= "panicked"
    /\ ContentTextWhere(events, FALSE, Len(events)) = GapText(o)
    /\ ContentTextWhere(events, TRUE, Len(events)) = SectionText(o)
    /\ Done =>
        /\ result.tag = "Ok"
        /\ ResultOutput.text = o.text
        /\ \A p \in GapPositions(o) : ~InSomeSection(ResultOutput, p)

\* C3 as stated: for every well-formed Output the text before, between and
\* after the sections is emitted verbatim and only in Content events outside
\* every StartSection..EndSection pair, and no reconstructed section's range
\* contains a position of that text.
C3_GapPreservationAsStated ==
    (FromOutput /\ pc /= "to_event_stream") => GapPreserved(source[1])

\* C3, amended: the same, for Outputs whose section boundaries all lie on
\* UTF-8 character boundaries of the text.
C3_GapPreservation ==
    (FromOutput /\ CharAligned(source[1]) /\ pc /= "to_event_stream")
        => GapPreserved(source[1])

\* a finished round trip with text before, between and after two sections
C3_Witness ==
    /\ FromOutput /\ Done /\ CharAligned(source[1])
    /\ Len(source[1].sections) = 2
    /\ source[1].sections[1].range.start > 0
    /\ source[1].sections[1].range.end < source[1].sections[2].range.start
    /\ source[1].sections[2].range.end < Len(source[1].text)
    /\ Len(ResultOutput.sections) = 2

-----------------------------------------------------------------------------
(* C4: stream failure *)

FirstError(seq) ==
    seq[CHOOSE i \in 1..Len(seq) :
            seq[i].kind = "Err" /\ \A j \in 1..(i - 1) : seq[j].kind /= "Err"].error

\* C4: if the stream contains an error item, from_event_stream returns an
\* error equal to the first error item in stream order and no Output at all.
C4_StreamFailure ==
    (Done /\ ~ErrorFree(events))
        => /\ result = Err(FirstError(events))
           /\ result.output = None

\* a conversion that failed after accumulating text and a section, the
\* stream holding a different error after the first one
C4_Witness ==
    /\ Done /\ result.tag = "Err"
    /\ output.text /= <<>>
    /\ AllSections /= <<>>
    /\ \E i \in (consumed + 1)..Len(events) :
           events[i].kind = "Err" /\ Some(events[i].error) /= result.error

-----------------------------------------------------------------------------
(* C5: metadata override *)

\* C5: when an EndSection is processed while a section is open, the appended
\* section's metadata is the EndSection's metadata, whatever the StartSection
\* carried.
C5_MetadataOverride ==
    Converted =>
        \A i \in 1..consumed :
            (events[i].kind = "EndSection" /\ OpenBefore(events, i)) =>
                LET k == StartsBefore(events, i)
                IN  /\ Len(output.sections) >= k
                    /\ output.sections[k].metadata = events[i].metadata

\* an EndSection without metadata has closed a section whose StartSection
\* carried metadata
C5_Witness ==
    /\ Converted /\ consumed >= 1
    /\ events[consumed].kind = "EndSection"
    /\ events[consumed].metadata = None
    /\ OpenBefore(events, consumed)
    /\ events[OpenerBefore(events, consumed)].metadata /= None
    /\ output.sections[Len(output.sections)].metadata = None

-----------------------------------------------------------------------------
(* C6: defensive close *)

\* C6: when a StartSection is processed while another section is open, the
\* open section is appended first with the icon, label and metadata of its
\* own StartSection, and its end equals the start of the new section, the
\* accumulated text length at the second StartSection; both sections are in
\* the Output returned.
C6_DefensiveClose ==
    Converted =>
        \A j \in 1..consumed :
            (events[j].kind = "StartSection" /\ OpenBefore(events, j)) =>
                LET i == OpenerBefore(events, j)
                    k == StartsBefore(events, j)
                    at == TextLenBefore(events, j)
                IN  /\ Len(output.sections) >= k
                    /\ output.sections[k].icon = events[i].icon
                    /\ output.sections[k].label = events[i].label
                    /\ output.sections[k].metadata = events[i].metadata
                    /\ output.sections[k].range.end = at
                    /\ Len(AllSections) >= k + 1
                    /\ AllSections[k + 1].range.start = at
                    /\ (Done /\ result.tag = "Ok") =>
                        /\ Len(ResultOutput.sections) >= k + 1
                        /\ ResultOutput.sections[k] = output.sections[k]
                        /\ ResultOutput.sections[k + 1].range.start = at

\* a finished conversion of StartSection, non-empty Content, StartSection
C6_Witness ==
    /\ Done /\ result.tag = "Ok" /\ source = None
    /\ Len(events) >= 3
    /\ events[1].kind = "StartSection" /\ events[1].metadata /= None
    /\ events[2].kind = "Content" /\ events[2].text /= <<>>
    /\ events[3].kind = "StartSection"
    /\ Len(ResultOutput.sections) = 2
    /\ ResultOutput.sections[1].range.end = ResultOutput.sections[2].range.start
    /\ ResultOutput.sections[1].range.end > 0

-----------------------------------------------------------------------------
(* C7: a stray EndSection is a no-op *)

IsStray(seq, i) == seq[i].kind = "EndSection" /\ ~OpenBefore(seq, i)

\* items 1..n of seq without the stray EndSections
RECURSIVE WithoutStray(_, _)
WithoutStray(seq, n) ==
    IF n = 0 THEN <<>>
    ELSE WithoutStray(seq, n - 1) \o (IF IsStray(seq, n) THEN <<>> ELSE <<seq[n]>>)

\* the step that processes an EndSection while no section is open changes
\* neither text, sections, flag nor the absence of an open section, and the
\* conversion goes on
StrayStepIsNoOp ==
    (HasNext /\ NextItem.kind = "EndSection" /\ current_section = None)
        => /\ output' = output
           /\ current_section' = None
           /\ result' = result
           /\ pc' = "from_event_stream"

\* C7: an EndSection processed while no section is open leaves text,
\* sections, flag and the absence of an open section unchanged and the
\* conversion continues; the result of a stream equals the result of the
\* stream with every stray EndSection removed.
C7_StrayEndSection ==
    /\ [][StrayStepIsNoOp]_vars
    /\ [](Done => result = from_event_stream(WithoutStray(events, Len(events))))

\* a finished conversion that met a stray EndSection after accumulating a
\* section and text
C7_Witness ==
    /\ Done /\ result.tag = "Ok" /\ source = None
    /\ \E i \in 2..Len(events) :
           /\ IsStray(events, i)
           /\ TextLenBefore(events, i) > 0
           /\ StartsBefore(events, i) > 0
    /\ Len(ResultOutput.sections) = 1

-----------------------------------------------------------------------------
(* C8: an unterminated trailing section is closed at the end of the stream *)

\* C8: if the stream ends without error while a section is open, that
\* section is the last section of the Output, with the range it accumulated
\* and the icon, label and metadata of its StartSection.
C8_AutoClose ==
    (Done /\ ErrorFree(events) /\ OpenBefore(events, Len(events) + 1)) =>
        LET i == OpenerBefore(events, Len(events) + 1)
            n == StartsBefore(events, Len(events) + 1)
        IN  /\ result.tag = "Ok"
            /\ Len(ResultOutput.sections) = n
            /\ ResultOutput.sections[n] =
                   Section(TextLenBefore(events, i),
                           TextLenBefore(events, Len(events) + 1),
                           events[i].icon, events[i].label, events[i].metadata)

\* a finished conversion whose stream ended inside a section that followed
\* a closed one and received text
C8_Witness ==
    /\ Done /\ result.tag = "Ok" /\ source = None
    /\ OpenBefore(events, Len(events) + 1)
    /\ Len(ResultOutput.sections) = 2
    /\ ResultOutput.sections[2].range.start < ResultOutput.sections[2].range.end
    /\ ResultOutput.sections[2].metadata /= None

-----------------------------------------------------------------------------
(* C9: empty sections *)

EmptySectionKept(o, i) ==
    LET section == o.sections[i]
    IN  /\ \E j \in 1..(Len(events) - 2) :
               /\ StartsBefore(events, j) = i - 1
               /\ events[j] = StartSectionEvent(section.icon, section.label,
                                                section.metadata)
               /\ events[j + 1] = ContentEvent(<<>>, o.run_commands_in_text)
               /\ events[j + 2] = EndSectionEvent(section.metadata)
        /\ Done =>
               /\ result.tag = "Ok"
               /\ Len(ResultOutput.sections) >= i
               /\ ResultOutput.sections[i].range = section.range

EmptySectionsKept(o) ==
    /\ pc /= "panicked"
    /\ \A i \in 1..Len(o.sections) :
           o.sections[i].range.start = o.sections[i].range.end
               => EmptySectionKept(o, i)

HasEmptySection(o) ==
    \E i \in 1..Len(o.sections) : o.sections[i].range.start = o.sections[i].range.end

\* C9 as stated: for a section with start = end inside the text bounds,
\* to_event_stream emits StartSection, a Content with empty text and
\* EndSection, and from_event_stream reconstructs a section with the same
\* start and end = start.
C9_EmptySectionAsStated ==
    (FromOutput /\ HasEmptySection(source[1]) /\ pc /= "to_event_stream")
        => EmptySectionsKept(source[1])

\* C9, amended: the same, in an Output whose section boundaries all lie on
\* UTF-8 character boundaries of the text.
C9_EmptySection ==
    (FromOutput /\ HasEmptySection(source[1]) /\ CharAligned(source[1])
       /\ pc /= "to_event_stream")
        => EmptySectionsKept(source[1])

\* a finished round trip with an empty section strictly inside the text,
\* after a non-empty one
C9_Witness ==
    /\ FromOutput /\ Done /\ CharAligned(source[1])
    /\ Len(source[1].sections) = 2
    /\ source[1].sections[1].range.start < source[1].sections[1].range.end
    /\ source[1].sections[2].range.start = source[1].sections[2].range.end
    /\ source[1].sections[2].range.end < Len(source[1].text)
    /\ ResultOutput.sections[2].range = source[1].sections[2].range

-----------------------------------------------------------------------------
(* C10: run_commands_in_text is last-writer-wins *)

ContentPositions(seq) == {i \in 1..Len(seq) : seq[i].kind = "Content"}

LastContentFlag(seq) ==
    IF ContentPositions(seq) = {} THEN FALSE
    ELSE seq[CHOOSE i \in ContentPositions(seq) :
                 \A j \in ContentPositions(seq) : j <= i].run_commands_in_text

\* C10: for an error-free stream the Output's run_commands_in_text is the
\* flag of the last Content event, and false if there is none.
C10_LastWriterWins ==
    (Done /\ ErrorFree(events))
        => /\ result.tag = "Ok"
           /\ ResultOutput.run_commands_in_text = LastContentFlag(events)

\* a finished conversion whose Content events carried true, then false,
\* with a StartSection in between
C10_Witness ==
    /\ Done /\ result.tag = "Ok" /\ source = None
    /\ \E i, j, k \in 1..Len(events) :
           /\ i < j /\ j < k
           /\ events[i].kind = "Content" /\ events[i].run_commands_in_text
           /\ events[j].kind = "StartSection"
           /\ events[k].kind = "Content" /\ ~events[k].run_commands_in_text
           /\ \A l \in (k + 1)..Len(events) : events[l].kind /= "Content"
    /\ ~ResultOutput.run_commands_in_text

-----------------------------------------------------------------------------
(* C11: at most one section is open in the emitted stream *)

\* StartSection events minus EndSection events among items 1..n of seq
OpenCount(seq, n) ==
    Cardinality({j \in 1..n : seq[j].kind = "StartSection"})
        - Cardinality({j \in 1..n : seq[j].kind = "EndSection"})

\* StartSection and EndSection strictly alternate, StartSection first
Alternates(seq) ==
    \A n \in 1..Len(seq) :
        /\ seq[n].kind = "StartSection" => OpenCount(seq, n - 1) = 0
        /\ seq[n].kind = "EndSection" => OpenCount(seq, n - 1) = 1

\* C11: in the stream to_event_stream produces for any Output, StartSection
\* and EndSection strictly alternate starting with StartSection; after every
\* prefix 0 or 1 sections are open, and 0 at the end of the stream.
C11_OneOpenSection ==
    (FromOutput /\ Converted) =>
        /\ Alternates(events)
        /\ \A n \in 0..Len(events) : OpenCount(events, n) \in {0, 1}
        /\ OpenCount(events, Len(events)) = 0

\* a stream emitted for two sections, the first reaching past the end of
\* the text and the second with start > end and before the first
C11_Witness ==
    /\ FromOutput /\ pc = "from_event_stream" /\ consumed = 0
    /\ Len(source[1].sections) = 2
    /\ source[1].sections[1].range.end > Len(source[1].text)
    /\ source[1].sections[2].range.start > source[1].sections[2].range.end
    /\ source[1].sections[2].range.start < source[1].sections[1].range.start
    /\ Len(events) >= 6

-----------------------------------------------------------------------------
(* C12: AfterCompletion from bool *)

\* C12: AfterCompletion::from(true) is Run, AfterCompletion::from(false) is
\* Continue, and no boolean converts to Compose.
C12_BoolConversion ==
    \A i \in 1..Len(completions) :
        /\ completions[i].value => completions[i].after_completion = "Run"
        /\ ~completions[i].value => completions[i].after_completion = "Continue"
        /\ completions[i].after_completion /= "Compose"

\* both booleans have been converted
C12_Witness ==
    /\ \E i \in 1..Len(completions) :
           completions[i].value /\ completions[i].after_completion = "Run"
    /\ \E i \in 1..Len(completions) :
           ~completions[i].value /\ completions[i].after_completion = "Continue"

-----------------------------------------------------------------------------
(* C13: the text is the concatenation of the Content texts *)

\* the text of the Content events among items 1..n of seq, in stream order
RECURSIVE AllContentText(_, _)
AllContentText(seq, n) ==
    IF n = 0 THEN <<>>
    ELSE AllContentText(seq, n - 1)
         \o (IF seq[n].kind = "Content" THEN seq[n].text ELSE <<>>)

\* C13: for an error-free stream the text of the Output is the
\* concatenation, in stream order, of the text of all Content events,
\* wherever StartSection and EndSection occur.
C13_TextIsConcatenation ==
    (Done /\ ErrorFree(events))
        => /\ result.tag = "Ok"
           /\ ResultOutput.text = AllContentText(events, Len(events))

\* a finished conversion with non-empty Content before a section, inside it
\* and after it
C13_Witness ==
    /\ Done /\ result.tag = "Ok"
    /\ \E i, j, k \in 1..Len(events) :
           /\ i < j /\ j < k
           /\ events[i].kind = "Content" /\ events[i].text /= <<>>
           /\ ~OpenBefore(events, i)
           /\ events[j].kind = "Content" /\ events[j].text /= <<>>
           /\ OpenBefore(events, j)
           /\ events[k].kind = "Content" /\ events[k].text /= <<>>
           /\ ~OpenBefore(events, k)
    /\ Len(ResultOutput.text) >= 3

-----------------------------------------------------------------------------
(* C14: the range of a reconstructed section *)

\* position of the first StartSection or EndSection among items i+1..n of
\* seq, and n + 1 if there is none: where the section opened at i stops
\* receiving text
ClosedAt(seq, i, n) ==
    IF \E j \in (i + 1)..n : IsMarker(seq[j])
    THEN CHOOSE j \in (i + 1)..n :
             IsMarker(seq[j]) /\ \A k \in (i + 1)..(j - 1) : ~IsMarker(seq[k])
    ELSE n + 1

\* C14: every section's range starts at the accumulated text length when
\* its StartSection was processed and ends at the accumulated text length
\* after the last Content processed while it was open (its start if there
\* was none); Content processed while no section is open changes no range.
C14_SectionRanges ==
    Converted =>
        \A i \in 1..consumed :
            events[i].kind = "StartSection" =>
                LET k == StartsBefore(events, i) + 1
                IN  /\ Len(AllSections) >= k
                    /\ AllSections[k].range.start = TextLenBefore(events, i)
                    /\ AllSections[k].range.end =
                           TextLenBefore(events, ClosedAt(events, i, consumed))
                    /\ (Done /\ result.tag = "Ok") =>
                           /\ Len(ResultOutput.sections) >= k
                           /\ ResultOutput.sections[k].range = AllSections[k].range

\* a closed section that received text, followed by text outside it
C14_Witness ==
    /\ Converted /\ source = None /\ consumed = 4
    /\ events[1].kind = "StartSection"
    /\ events[2].kind = "Content" /\ events[2].text /= <<>>
    /\ events[3].kind = "EndSection"
    /\ events[4].kind = "Content" /\ events[4].text /= <<>>
    /\ output.sections[1].range = [start |-> 0, end |-> Len(events[2].text)]
    /\ Len(output.text) > output.sections[1].range.end

-----------------------------------------------------------------------------
(* C15: the stream is consumed in order and not past the first error *)

\* one event applied to the loop state
StepOf(st, item) ==
    CASE item.kind = "StartSection" -> OnStartSection(st, item)
      [] item.kind = "Content" -> OnContent(st, item)
      [] item.kind = "EndSection" -> OnEndSection(st, item)

\* a step that pulls from the stream pulls exactly the next item, leaves the
\* stream as it is, and has applied that item when it ends
PullsNextItem ==
    consumed' /= consumed =>
        /\ pc = "from_event_stream"
        /\ consumed' = consumed + 1
        /\ events' = events
        /\ IF events[consumed + 1].kind = "Err"
           THEN /\ pc' = "done"
                /\ result' = Err(events[consumed + 1].error)
           ELSE /\ pc' = "from_event_stream"
                /\ LoopState(output', current_section')
                       = StepOf(LoopState(output, current_section), events[consumed + 1])

\* no item after an error item has been pulled, and the result is that of
\* the items pulled
NothingPulledAfterError ==
    Converted =>
        /\ consumed <= Len(events)
        /\ \A i \in 1..(consumed - 1) : events[i].kind /= "Err"
        /\ Done => result = from_event_stream(SubSeq(events, 1, consumed))

\* C15: from_event_stream consumes the stream in emission order, one item
\* at a time, applying each before pulling the next; after the first error
\* item nothing more is pulled, and the items after it do not affect the
\* result.
C15_ConsumedInOrder ==
    /\ [][PullsNextItem]_vars
    /\ []NothingPulledAfterError

\* a conversion that stopped at an error with two more items, one of them
\* another error, left in the stream
C15_Witness ==
    /\ Done /\ result.tag = "Err"
    /\ consumed = 2 /\ Len(events) = 4
    /\ events[1].kind = "Content"
    /\ events[3].kind = "StartSection"
    /\ events[4].kind = "Err" /\ events[4].error /= events[2].error
    /\ output.sections = <<>> /\ current_section = None

-----------------------------------------------------------------------------
(* C16: from_event_stream yields well-formed sections *)

\* every section within 0..len, starts non-decreasing, end of one <= start
\* of the next
WellFormedSections(sections, len) ==
    /\ \A i \in 1..Len(sections) :
           /\ 0 <= sections[i].range.start
           /\ sections[i].range.start <= sections[i].range.end
           /\ sections[i].range.end <= len
    /\ \A i \in 1..(Len(sections) - 1) :
           /\ sections[i].range.start <= sections[i + 1].range.start
           /\ sections[i].range.end <= sections[i + 1].range.start

\* C16: for any event sequence, in every state of from_event_stream and in
\* its result each section satisfies 0 <= start <= end <= len(text), the
\* sections are in non-decreasing start order and end of one <= start of
\* the next.
C16_WellFormedResult ==
    Converted =>
        /\ WellFormedSections(AllSections, Len(output.text))
        /\ (Done /\ result.tag = "Ok") =>
               WellFormedSections(ResultOutput.sections, Len(ResultOutput.text))

\* a finished conversion of a malformed stream: a stray EndSection, then a
\* StartSection repeated while a section that received text is open
C16_Witness ==
    /\ Done /\ result.tag = "Ok" /\ source = None
    /\ Len(events) = 4
    /\ events[1].kind = "EndSection"
    /\ events[2].kind = "StartSection"
    /\ events[3].kind = "Content" /\ events[3].text /= <<>>
    /\ events[4].kind = "StartSection"
    /\ Len(ResultOutput.sections) = 2

-----------------------------------------------------------------------------
(* C17: one section per StartSection *)

\* position of the k-th StartSection of seq
StartPosition(seq, k) ==
    CHOOSE i \in 1..Len(seq) :
        seq[i].kind = "StartSection" /\ StartsBefore(seq, i) = k - 1

\* C17: for an error-free stream the Output has exactly as many sections as
\* the stream has StartSection events, and the i-th section carries the icon
\* and label of the i-th StartSection.
C17_SectionPerStart ==
    (Done /\ ErrorFree(events)) =>
        /\ result.tag = "Ok"
        /\ Len(ResultOutput.sections) = StartsBefore(events, Len(events) + 1)
        /\ \A k \in 1..Len(ResultOutput.sections) :
               /\ ResultOutput.sections[k].icon = events[StartPosition(events, k)].icon
               /\ ResultOutput.sections[k].label = events[StartPosition(events, k)].label

\* a finished conversion of three StartSections with different icons or
\* labels, one closed by EndSection, one by the next StartSection and one
\* by the end of the stream
C17_Witness ==
    /\ Done /\ result.tag = "Ok" /\ source = None
    /\ Len(events) = 4
    /\ events[1].kind = "StartSection"
    /\ events[2].kind = "EndSection"
    /\ events[3].kind = "StartSection"
    /\ events[4].kind = "StartSection"
    /\ events[1].icon /= events[3].icon
    /\ events[3].label /= events[4].label
    /\ Len(ResultOutput.sections) = 3

-----------------------------------------------------------------------------
(* C18: incremental stability *)

IsPrefix(s, t) == Len(s) <= Len(t) /\ SubSeq(t, 1, Len(s)) = s

\* text only grows at its end; the section list only grows by one section
\* at its end; the section appended is the one that was open, with at most
\* its metadata replaced; a section that stays open keeps its start, icon,
\* label and metadata
StableStep ==
    pc = "from_event_stream" =>
        /\ IsPrefix(output.text, output'.text)
        /\ IsPrefix(output.sections, output'.sections)
        /\ Len(output'.sections) <= Len(output.sections) + 1
        /\ Len(output'.sections) = Len(output.sections) + 1 =>
               /\ current_section /= None
               /\ [output'.sections[Len(output'.sections)] EXCEPT !.metadata = None]
                      = [current_section[1] EXCEPT !.metadata = None]
        /\ (current_section /= None /\ Len(output'.sections) = Len(output.sections)) =>
               /\ current_section' /= None
               /\ [current_section'[1] EXCEPT !.range.end = 0]
                      = [current_section[1] EXCEPT !.range.end = 0]

\* C18: at every step of from_event_stream the text changes only by
\* appending at its end, the section list only by appending one section at
\* its end, and a section already in the list is never modified, reordered
\* or removed; only the open section's end and metadata can still change.
C18_IncrementalStability == [][StableStep]_vars

\* Content has arrived after a section was closed: the closed section is
\* unchanged while the text has grown past it
C18_Witness ==
    /\ Converted /\ source = None /\ consumed = 4
    /\ events[1].kind = "StartSection"
    /\ events[2].kind = "Content" /\ events[2].text /= <<>>
    /\ events[3].kind = "EndSection" /\ events[3].metadata /= events[1].metadata
    /\ events[4].kind = "Content" /\ events[4].text /= <<>>
    /\ Len(output.sections) = 1
    /\ output.sections[1].range.end < Len(output.text)

-----------------------------------------------------------------------------
(* C19: event-level round trip *)

\* to_event_stream of the reconstructed Output yields the events the
\* conversion consumed
SameEventsAgain ==
    /\ result.tag = "Ok"
    /\ ~to_event_stream(ResultOutput).panicked
    /\ to_event_stream(ResultOutput).events = events

\* C19 as stated: for every well-formed Output o,
\* to_event_stream(from_event_stream(to_event_stream(o))) is the same event
\* sequence as to_event_stream(o).
C19_EventRoundTripAsStated ==
    (FromOutput /\ Done) => SameEventsAgain

\* C19 (amended): the same, for well-formed Outputs whose section starts and
\* ends all lie on UTF-8 character boundaries of the text.
C19_EventRoundTrip ==
    (FromOutput /\ Done /\ CharAligned(source[1])) => SameEventsAgain

\* a finished round trip of an Output with a multi-byte character, text
\* before and inside a section, and the flag set
C19_Witness ==
    /\ FromOutput /\ Done /\ CharAligned(source[1])
    /\ source[1].run_commands_in_text
    /\ Len(source[1].sections) >= 1
    /\ source[1].sections[1].range.start > 0
    /\ source[1].sections[1].range.end > source[1].sections[1].range.start
    /\ \E i \in 1..Len(source[1].text) : source[1].text[i] > 127
    /\ SameEventsAgain

-----------------------------------------------------------------------------
(* C20: to_event_stream on unvalidated ranges *)

\* section i of o has a range that ends past the text or starts after its end
InvalidRange(o, i) ==
    \/ o.sections[i].range.end > Len(o.text)
    \/ o.sections[i].range.start > o.sections[i].range.end

\* every section of o has its StartSection, Content, EndSection in seq, the
\* Content of an invalid section with empty text
TriplesEmitted(o, seq) ==
    /\ StartsBefore(seq, Len(seq) + 1) = Len(o.sections)
    /\ \A i \in 1..Len(o.sections) :
           LET p == StartPosition(seq, i)
           IN  /\ p + 2 <= Len(seq)
               /\ seq[p + 1].kind = "Content"
               /\ seq[p + 2].kind = "EndSection"
               /\ InvalidRange(o, i) => seq[p + 1].text = <<>>

\* C20: to_event_stream never reports an error: for any Output, including
\* sections whose range has end > len(text) or start > end, the stream is
\* finite and every item is a successful event; an invalid section still
\* yields its StartSection / Content / EndSection triple with empty Content
\* text, and from_event_stream(to_event_stream(o)) always returns Ok.
C20_NeverFails ==
    FromOutput =>
        /\ pc /= "panicked"
        /\ pc /= "to_event_stream" =>
               /\ ErrorFree(events)
               /\ TriplesEmitted(source[1], events)
        /\ Done => result.tag = "Ok"

====
